---- MODULE Spec2Model ----
(***************************************************************************)
(* A model of the generic CRUD handler BaseCRUD                            *)
(* (src/app/core/handlers/base.py) over a document store.                  *)
(*                                                                         *)
(* The store is a map from ObjectId to document; a document is a map from  *)
(* field name to value (fields may be absent).  Every coroutine is modelled*)
(* at the granularity of its store calls: one action per awaited store     *)
(* operation, with the synchronous code that precedes it.                  *)
(*                                                                         *)
(* Three specifications: Spec (one caller, every operation), SpecConc (two *)
(* callers interleaving one update or delete each on one record) and       *)
(* SpecCompose (the shape composer ModelGenerator, src/app/schemas/core.py)*)
(***************************************************************************)
EXTENDS Integers, Sequences, FiniteSets, TLC

VARIABLES
    store,      \* collection: ObjectId -> document (only present ids)
    nextId,     \* the next ObjectId the store hands out (ids are never reused)
    now,        \* the latest reading of datetime.now(timezone.utc)
    conf,       \* the handler's configuration, set by __init__
    pc,         \* per caller: where its coroutine is suspended
    frame,      \* per caller: the locals of the call in flight / its outcome
    calls       \* number of handler calls started so far

vars == <<store, nextId, now, conf, pc, frame, calls>>

----------------------------------------------------------------------------
(* Bounds of the model *)

MaxIds == 2      \* at most this many records are ever inserted
MaxClock == 2    \* the clock reads 0..MaxClock
MaxCalls == 3    \* at most this many handler calls are started

----------------------------------------------------------------------------
(* Values *)

Names == {"Jane", "Bob"}
Ages == {25, 30}
Times == 0..MaxClock

NoneStr == "None"       \* Python None in a string-typed field
NoneInt == 0 - 1        \* Python None in an int/datetime-typed field

EmptyDict == [f \in {} |-> 0]

\* dict.update(other) / {**a, **b} / the store's field-level $set merge
Merge(a, b) ==
    [f \in (DOMAIN a) \cup (DOMAIN b) |-> IF f \in DOMAIN b THEN b[f] ELSE a[f]]

Restrict(a, S) == [f \in S |-> a[f]]

----------------------------------------------------------------------------
(* Identity: the store's native id and its string form *)

HexChars == <<"0", "1", "2", "3", "4", "5", "6", "7",
              "8", "9", "a", "b", "c", "d", "e", "f">>

HexValue(c) == CHOOSE i \in 1..Len(HexChars) : HexChars[i] = c

IsHex(c) == \E i \in 1..Len(HexChars) : HexChars[i] = c

\* str(ObjectId): the hexadecimal string form (two digits in this model)
str(oid) == <<HexChars[(oid \div 16) + 1], HexChars[(oid % 16) + 1]>>

\* bson.ObjectId.is_valid
IsValidId(s) == Len(s) = 2 /\ \A i \in 1..Len(s) : IsHex(s[i])

\* ObjectId(id): parse the string form (only for valid strings)
ObjectId(s) == (HexValue(s[1]) - 1) * 16 + (HexValue(s[2]) - 1)

Malformed == <<"z", "z">>

\* the id strings callers pass: every id the store may hand out, one id
\* that never exists, and one string that is not an id
IdInputs == {str(n) : n \in 0..MaxIds} \cup {Malformed}

----------------------------------------------------------------------------
(* Inputs *)

\* create shapes (fast.py User): every field is set, model_dump() keeps all
CreateItems == {[name |-> "Jane", age |-> 25], [name |-> "Bob", age |-> 30]}

\* **defaults_fields of create / create_many: none, or one field the create
\* shape does not carry together with one it does
DefaultsInputs == {EmptyDict, [status |-> "active", name |-> "Bob"]}

\* the lists create_many is called with
BulkInputs ==
    {<<[name |-> "Bob", age |-> 30]>>,
     <<[name |-> "Jane", age |-> 25], [name |-> "Bob", age |-> 30]>>}

Opt(field, Values) == {EmptyDict} \cup {[f \in {field} |-> v] : v \in Values}

\* the fields an update shape instance has explicitly set (at most one here)
UpdateVals ==
    {v \in {Merge(Merge(Merge(Merge(a, b), c), d), e) :
                a \in Opt("name", {"Bob", NoneStr}),
                b \in Opt("age", Ages),
                c \in Opt("created_at", {0}),
                d \in Opt("is_deleted", BOOLEAN),
                e \in Opt("id", {str(0)})} :
        Cardinality(DOMAIN v) <= 1}

\* the declared defaults of the update shape's fields: a shape whose fields
\* all default to None, and one with the defaults age = 25, is_deleted = False
UpdateShapes ==
    {[name |-> NoneStr, age |-> NoneInt],
     [name |-> NoneStr, age |-> 25, is_deleted |-> FALSE]}

\* an update shape instance: the fields set on it, and its shape's defaults
\* (of the shape with defaults, the instances that set a field to its default)
UpdateItems ==
    {i \in [val : UpdateVals, dflt : UpdateShapes] :
        \/ "is_deleted" \notin DOMAIN i.dflt
        \/ \E f \in DOMAIN i.val : f \in DOMAIN i.dflt /\ i.val[f] = i.dflt[f]}

\* get_multiple's default n
DefaultLimit == 100

\* the arguments get_multiple is called with: the defaults, and a sorted,
\* limited, filtered listing
ListInputs ==
    {[sort_by |-> NoneStr, n |-> DefaultLimit, filters |-> EmptyDict],
     [sort_by |-> "age", n |-> 1, filters |-> [name |-> "Bob"]]}

Callers == {1, 2}
SeqCallers == {1}

----------------------------------------------------------------------------
(* Serialisation *)

\* CreateSchema.model_dump(): all fields of the shape
model_dump(item) == item

IsNone(f, v) ==
    CASE f = "name" -> v = NoneStr
      [] f = "age" -> v = NoneInt
      [] OTHER -> FALSE

\* faulty variant: the dump without exclude_unset / exclude_defaults: unset fields
\* come out with their defaults
model_dump_unset_kept(item) == Merge(item.dflt, item.val)

\* UpdateSchema.model_dump(exclude_none=True, exclude_defaults=True,
\*                         exclude_unset=True)
model_dump_sparse(item) ==
    Restrict(item.val,
             {f \in DOMAIN item.val :
                 /\ ~IsNone(f, item.val[f])
                 /\ ~(f \in DOMAIN item.dflt /\ item.dflt[f] = item.val[f])})

\* faulty variant: the ObjectId is rendered by repr, not str
validate_id_repr(oid) == <<"O">> \o str(oid)

\* FromMongo.validate_id: an ObjectId becomes its string form
validate_id(oid) == str(oid)

\* self._read_model(**item) with the read shape of fast.py (identity,
\* soft-deletion and timestamp groups, name, age); extra fields are ignored
read_model(doc, t) ==
    IF {"name", "age"} \subseteq DOMAIN doc
    THEN [tag |-> "shape",
          shape |-> [id |-> validate_id(doc["_id"]),
                     name |-> doc["name"],
                     age |-> doc["age"],
                     created_at |-> IF "created_at" \in DOMAIN doc
                                    THEN doc["created_at"] ELSE t,
                     updated_at |-> IF "updated_at" \in DOMAIN doc
                                    THEN doc["updated_at"] ELSE NoneInt,
                     is_deleted |-> IF "is_deleted" \in DOMAIN doc
                                    THEN doc["is_deleted"] ELSE FALSE]]
    ELSE [tag |-> "raise", err |-> "ValidationError"]

----------------------------------------------------------------------------
(* The store driver *)

\* find_one({"_id": oid}) is not None
found(st, oid) == oid \in DOMAIN st

\* insert_one(doc): the store assigns the identity
insert_one(st, oid, dict) ==
    [o \in (DOMAIN st) \cup {oid} |->
        IF o = oid THEN Merge(dict, [f \in {"_id"} |-> oid]) ELSE st[o]]

\* update_one({"_id": oid}, {"$set": dict}): a field-level merge, a no-op
\* when nothing matches (and when dict is empty)
update_one(st, oid, dict) ==
    IF found(st, oid) THEN [st EXCEPT ![oid] = Merge(st[oid], dict)] ELSE st

\* delete_one({"_id": oid})
delete_one(st, oid) == [o \in (DOMAIN st) \ {oid} |-> st[o]]

\* result.acknowledged under the driver's default write concern
acknowledged == TRUE

----------------------------------------------------------------------------
(* BaseCRUD: the synchronous parts of the handler *)

\* faulty variant: the existence check is skipped
id_exists_always(st, id) == TRUE

\* id_exists: find_one({"_id": ObjectId(id)}) is not None
id_exists(st, id) == found(st, ObjectId(id))

\* find_and_is_soft_deleted: 404 when nothing matches, else
\* item.get("is_deleted", False)
find_and_is_soft_deleted(st, id) ==
    IF ~found(st, ObjectId(id))
    THEN [tag |-> "raise", err |-> "NotFound"]
    ELSE [tag |-> "bool",
          b |-> IF "is_deleted" \in DOMAIN st[ObjectId(id)]
                THEN st[ObjectId(id)]["is_deleted"] ELSE FALSE]

\* faulty variant: None instead of 404 when nothing matches
get_by_id_or_none(st, id, t) ==
    IF ~found(st, ObjectId(id))
    THEN [tag |-> "none"]
    ELSE read_model(st[ObjectId(id)], t)

\* get_by_id: 404 when nothing matches, else the parsed read shape
get_by_id(st, id, t) ==
    IF ~found(st, ObjectId(id))
    THEN [tag |-> "raise", err |-> "NotFound"]
    ELSE read_model(st[ObjectId(id)], t)

\* count: count_documents({})
count(st) == Cardinality(DOMAIN st)

\* find(filters): the ids of the records equal to the filter on each of its
\* fields
find(st, filters) ==
    {o \in DOMAIN st :
        \A f \in DOMAIN filters : f \in DOMAIN st[o] /\ st[o][f] = filters[f]}

\* the orders a cursor may deliver the records S in: by sort_by when given
\* (records that tie in any order), else in insertion order
cursor_orders(st, S, sort_by) ==
    {sq \in [1..Cardinality(S) -> S] :
        /\ \A i, j \in 1..Cardinality(S) : i # j => sq[i] # sq[j]
        /\ \A i, j \in 1..Cardinality(S) :
              i < j => IF sort_by # NoneStr
                       THEN st[sq[i]][sort_by] <= st[sq[j]][sort_by]
                       ELSE sq[i] < sq[j]}

\* get_multiple: find(filters), sort(sort_by) if given, limit(n), to_list(n):
\* the lists of raw records it may return
get_multiple(st, sort_by, n, filters) ==
    {[i \in 1..(IF n < Len(sq) THEN n ELSE Len(sq)) |-> st[sq[i]]] :
        sq \in cursor_orders(st, find(st, filters), sort_by)}

\* create / create_many: item.model_dump() then dict.update(defaults_fields)
merge_defaults(item, defaults) == Merge(model_dump(item), defaults)

\* faulty variant: only created_at is stamped
_create_created_at_only(item_dict, t) ==
    IF conf.make_time_stamps
    THEN Merge(item_dict, [created_at |-> t])
    ELSE item_dict

\* _create / the loop body of _create_many: stamp both timestamps with one
\* clock reading when timestamping is on
_create(item_dict, t) ==
    IF conf.make_time_stamps
    THEN Merge(item_dict, [created_at |-> t, updated_at |-> t])
    ELSE item_dict

\* _update: stamp updated_at when timestamping is on
_update(item_dict, t) ==
    IF conf.make_time_stamps
    THEN Merge(item_dict, [updated_at |-> t])
    ELSE item_dict

\* faulty variant: the record is replaced by the patch instead of merged
__update_replace(st, id, item_dict) ==
    IF found(st, ObjectId(id))
    THEN [st EXCEPT ![ObjectId(id)] =
              Merge(item_dict, [f \in {"_id"} |-> ObjectId(id)])]
    ELSE st

\* __update: update_one({"_id": ObjectId(id)}, {"$set": item_dict})
__update(st, id, item_dict) == update_one(st, ObjectId(id), item_dict)

\* _delete tests the coroutine object find_and_is_soft_deleted(id, db)
\* returns, without awaiting it: a coroutine object is always truthy
unawaited_is_soft_deleted(st, id) == TRUE

\* faulty variant: the record is flagged whatever the configuration
_delete_flags_only(st, id, t) ==
    update_one(st, ObjectId(id), [is_deleted |-> TRUE])

\* _delete: the store call it issues, applied to the store
_delete(st, id, t) ==
    IF unawaited_is_soft_deleted(st, id)
    THEN delete_one(st, ObjectId(id))
    ELSE IF conf.soft_delete
         THEN update_one(st, ObjectId(id),
                         Merge([deleted |-> TRUE],
                               IF conf.make_time_stamps
                               THEN [updated_at |-> t] ELSE EmptyDict))
         ELSE delete_one(st, ObjectId(id))

----------------------------------------------------------------------------
(* Call frames *)

NoRes == [tag |-> "none"]
Raise(e) == [tag |-> "raise", err |-> e]
Bool(b) == [tag |-> "bool", b |-> b]

NewFrame(op, id) ==
    [op |-> op,             \* the operation called
     id |-> id,             \* its id argument
     items |-> <<>>,        \* its shape argument(s)
     defaults |-> EmptyDict,\* its **defaults_fields
     dicts |-> <<>>,        \* the dict(s) handed to the store
     inserted |-> <<>>,     \* result.inserted_id(s)
     seen |-> <<>>,         \* history: the record as id_exists found it
     wrote |-> FALSE,       \* the store write of this call has completed
     matched |-> FALSE,     \* history: that write matched a record
     hooks |-> <<>>,        \* the lifecycle hooks this call has invoked
     raised |-> FALSE,      \* history: the hook raised
     res |-> NoRes]         \* what the call returned or raised

\* history: the record of that id, as the store holds it
Seen(st, id) == IF found(st, ObjectId(id)) THEN <<st[ObjectId(id)]>> ELSE <<>>

Idle(p) == pc[p] \in {"idle", "done"}

CanStart(p) == Idle(p) /\ calls < MaxCalls

\* the call returns or raises: its locals are gone, its outcome remains
Finish(p, f) ==
    /\ pc' = [pc EXCEPT ![p] = "done"]
    /\ frame' = [frame EXCEPT ![p] =
                    [NewFrame(f.op, f.id) EXCEPT
                        !.items = IF f.op = "update" THEN <<>> ELSE f.items,
                        !.defaults = f.defaults, !.inserted = f.inserted,
                        !.wrote = f.wrote, !.matched = f.matched,
                        !.hooks = f.hooks, !.raised = f.raised, !.res = f.res]]

\* faulty variant: the call returns without invoking its hook
Hook_skipped(p, name, result) ==
    Finish(p, [frame[p] EXCEPT !.res = result])

\* faulty variant: an error the hook raises is caught, the call returns
Hook_swallowed(p, name, result) ==
    \E raises \in BOOLEAN :
        Finish(p, [frame[p] EXCEPT
                      !.hooks = Append(@, name),
                      !.raised = raises,
                      !.res = result])

\* a lifecycle hook runs: the default is a no-op, an override may raise, and
\* the error leaves the call uncaught
Hook(p, name, result) ==
    \E raises \in BOOLEAN :
        Finish(p, [frame[p] EXCEPT
                      !.hooks = Append(@, name),
                      !.raised = raises,
                      !.res = IF raises THEN Raise("HookError") ELSE result])

----------------------------------------------------------------------------
(* Initial state: the handler is constructed, the collection is empty *)

Init ==
    /\ store = [o \in {} |-> EmptyDict]
    /\ nextId = 0
    /\ now = 0
    /\ conf \in [make_time_stamps : BOOLEAN, soft_delete : BOOLEAN]
    /\ pc = [p \in Callers |-> "idle"]
    /\ frame = [p \in Callers |-> NewFrame("none", <<>>)]
    /\ calls = 0

\* datetime.now(timezone.utc) returns t: since the latest reading the clock
\* has advanced by a tick, or not by enough to show
ClockReads(t) == t \in {now, now + 1} /\ t <= MaxClock /\ now' = t

----------------------------------------------------------------------------
(* create *)

\* create up to the awaited insert_one: dump, merge the defaults, stamp
Create(p, item, defaults) ==
    /\ CanStart(p)
    /\ nextId < MaxIds
    /\ calls' = calls + 1
    /\ pc' = [pc EXCEPT ![p] = "c_insert"]
    /\ \E t \in Times :
        /\ IF conf.make_time_stamps THEN ClockReads(t) ELSE t = now /\ now' = now
        /\ frame' = [frame EXCEPT ![p] =
                    [NewFrame("create", <<>>) EXCEPT
                        !.items = <<item>>,
                        !.defaults = defaults,
                        !.dicts = <<_create(merge_defaults(item, defaults), t)>>]]
    /\ UNCHANGED <<store, nextId, conf>>

\* __create: the store executes insert_one
CreateInsert(p) ==
    /\ pc[p] = "c_insert"
    /\ store' = insert_one(store, nextId, frame[p].dicts[1])
    /\ nextId' = nextId + 1
    /\ pc' = [pc EXCEPT ![p] = "c_hook"]
    /\ frame' = [frame EXCEPT ![p].inserted = <<nextId>>, ![p].wrote = TRUE]
    /\ UNCHANGED <<now, conf, calls>>

\* await self.on_create(); return str(result.inserted_id)
CreateHook(p) ==
    /\ pc[p] = "c_hook"
    /\ Hook(p, "on_create", [tag |-> "id", id |-> str(frame[p].inserted[1])])
    /\ UNCHANGED <<store, nextId, now, conf, calls>>

----------------------------------------------------------------------------
(* create_many *)

\* create_many up to the awaited insert_many: dump and merge every item,
\* then stamp each in turn (one clock reading per item)
CreateMany(p, items, defaults) ==
    /\ CanStart(p)
    /\ nextId + Len(items) <= MaxIds
    /\ calls' = calls + 1
    /\ \E ts \in [1..Len(items) -> Times] :
        /\ ts[1] \in {now, now + 1}
        /\ \A i \in 1..(Len(items) - 1) : ts[i + 1] \in {ts[i], ts[i] + 1}
        /\ ~conf.make_time_stamps => \A i \in 1..Len(items) : ts[i] = now
        /\ now' = ts[Len(items)]
        /\ frame' = [frame EXCEPT ![p] =
                [NewFrame("create_many", <<>>) EXCEPT
                    !.items = items,
                    !.defaults = defaults,
                    !.dicts = [i \in 1..Len(items) |->
                                 _create(merge_defaults(items[i], defaults), ts[i])]]]
    /\ pc' = [pc EXCEPT ![p] = "m_insert"]
    /\ UNCHANGED <<store, nextId, conf>>

RECURSIVE insert_many(_, _, _)
\* insert_many(docs): the store inserts the documents in order
insert_many(st, oid, dicts) ==
    IF dicts = <<>> THEN st
    ELSE insert_many(insert_one(st, oid, Head(dicts)), oid + 1, Tail(dicts))

CreateManyInsert(p) ==
    /\ pc[p] = "m_insert"
    /\ store' = insert_many(store, nextId, frame[p].dicts)
    /\ nextId' = nextId + Len(frame[p].dicts)
    /\ pc' = [pc EXCEPT ![p] = "m_hook"]
    /\ frame' = [frame EXCEPT
                    ![p].inserted = [i \in 1..Len(frame[p].dicts) |-> nextId + i - 1],
                    ![p].wrote = TRUE]
    /\ UNCHANGED <<now, conf, calls>>

\* await self.on_create(); return [str(id) for id in result.inserted_ids]
CreateManyHook(p) ==
    /\ pc[p] = "m_hook"
    /\ Hook(p, "on_create",
            [tag |-> "ids",
             ids |-> [i \in 1..Len(frame[p].inserted) |-> str(frame[p].inserted[i])]])
    /\ UNCHANGED <<store, nextId, now, conf, calls>>

----------------------------------------------------------------------------
(* update *)

\* update up to the awaited find_one of id_exists; ObjectId(id) raises for a
\* string that is no id
Update(p, id) ==
    /\ CanStart(p)
    /\ calls' = calls + 1
    /\ IF IsValidId(id)
       THEN /\ pc' = [pc EXCEPT ![p] = "u_exists"]
            /\ frame' = [frame EXCEPT ![p] = NewFrame("update", id)]
       ELSE Finish(p, [NewFrame("update", id) EXCEPT !.res = Raise("InvalidId")])
    /\ UNCHANGED <<store, nextId, now, conf>>

\* the store executes the find_one of id_exists; if the record exists the
\* call goes on to dump the shape sparsely, stamp, and issue update_one
UpdateIdExists(p, item) ==
    /\ pc[p] = "u_exists"
    /\ IF id_exists(store, frame[p].id)
       THEN /\ pc' = [pc EXCEPT ![p] = "u_write"]
            /\ \E t \in Times :
                /\ IF conf.make_time_stamps
                   THEN ClockReads(t) ELSE t = now /\ now' = now
                /\ frame' = [frame EXCEPT
                        ![p].items = <<item>>,
                        ![p].seen = Seen(store, frame[p].id),
                        ![p].dicts = <<_update(model_dump_sparse(item), t)>>]
       ELSE /\ Finish(p, [frame[p] EXCEPT !.res = Bool(FALSE)])
            /\ item = CHOOSE i \in UpdateItems : TRUE
            /\ now' = now
    /\ UNCHANGED <<store, nextId, conf, calls>>

\* __update: the store executes update_one
UpdateWrite(p) ==
    /\ pc[p] = "u_write"
    /\ store' = __update(store, frame[p].id, frame[p].dicts[1])
    /\ pc' = [pc EXCEPT ![p] = "u_hook"]
    /\ frame' = [frame EXCEPT ![p].wrote = TRUE,
                              ![p].matched = found(store, ObjectId(frame[p].id))]
    /\ UNCHANGED <<nextId, now, conf, calls>>

\* await self.on_update(); return result.acknowledged
UpdateHook(p) ==
    /\ pc[p] = "u_hook"
    /\ Hook(p, "on_update", Bool(acknowledged))
    /\ UNCHANGED <<store, nextId, now, conf, calls>>

----------------------------------------------------------------------------
(* delete *)

\* delete up to the awaited find_one of id_exists
Delete(p, id) ==
    /\ CanStart(p)
    /\ calls' = calls + 1
    /\ IF IsValidId(id)
       THEN /\ pc' = [pc EXCEPT ![p] = "d_exists"]
            /\ frame' = [frame EXCEPT ![p] = NewFrame("delete", id)]
       ELSE Finish(p, [NewFrame("delete", id) EXCEPT !.res = Raise("InvalidId")])
    /\ UNCHANGED <<store, nextId, now, conf>>

\* the store executes the find_one of id_exists
DeleteIdExists(p) ==
    /\ pc[p] = "d_exists"
    /\ IF id_exists(store, frame[p].id)
       THEN /\ pc' = [pc EXCEPT ![p] = "d_delete"]
            /\ frame' = [frame EXCEPT ![p].seen = Seen(store, frame[p].id)]
       ELSE Finish(p, [frame[p] EXCEPT !.res = Bool(FALSE)])
    /\ UNCHANGED <<store, nextId, now, conf, calls>>

\* _delete reads the clock only on its soft-delete path
_delete_stamps(st, id) ==
    ~unawaited_is_soft_deleted(st, id) /\ conf.soft_delete /\ conf.make_time_stamps

\* _delete: the store executes the call _delete issues
DeleteStore(p) ==
    /\ pc[p] = "d_delete"
    /\ \E t \in Times :
        /\ IF _delete_stamps(store, frame[p].id)
           THEN ClockReads(t) ELSE t = now /\ now' = now
        /\ store' = _delete(store, frame[p].id, t)
    /\ pc' = [pc EXCEPT ![p] = "d_hook"]
    /\ frame' = [frame EXCEPT ![p].wrote = TRUE,
                              ![p].matched = found(store, ObjectId(frame[p].id))]
    /\ UNCHANGED <<nextId, conf, calls>>

\* await self.on_delete(); return result.acknowledged
DeleteHook(p) ==
    /\ pc[p] = "d_hook"
    /\ Hook(p, "on_delete", Bool(acknowledged))
    /\ UNCHANGED <<store, nextId, now, conf, calls>>

----------------------------------------------------------------------------
(* reads: one store call each *)

IdExists(p, id) ==
    /\ CanStart(p)
    /\ calls' = calls + 1
    /\ Finish(p, [NewFrame("id_exists", id) EXCEPT
                     !.res = IF IsValidId(id) THEN Bool(id_exists(store, id))
                             ELSE Raise("InvalidId")])
    /\ UNCHANGED <<store, nextId, now, conf>>

\* faulty variant: the lookup is made with find_one_and_delete
FindAndIsSoftDeleted_and_delete(p, id) ==
    /\ CanStart(p)
    /\ calls' = calls + 1
    /\ Finish(p, [NewFrame("find_and_is_soft_deleted", id) EXCEPT
                     !.res = IF IsValidId(id) THEN find_and_is_soft_deleted(store, id)
                             ELSE Raise("InvalidId")])
    /\ store' = IF IsValidId(id) THEN delete_one(store, ObjectId(id)) ELSE store
    /\ UNCHANGED <<nextId, now, conf>>

FindAndIsSoftDeleted(p, id) ==
    /\ CanStart(p)
    /\ calls' = calls + 1
    /\ Finish(p, [NewFrame("find_and_is_soft_deleted", id) EXCEPT
                     !.res = IF IsValidId(id) THEN find_and_is_soft_deleted(store, id)
                             ELSE Raise("InvalidId")])
    /\ UNCHANGED <<store, nextId, now, conf>>

\* get_by_id reads the clock when the record carries no created_at (the
\* read shape's default_factory)
get_by_id_stamps(st, id) ==
    /\ IsValidId(id)
    /\ found(st, ObjectId(id))
    /\ "created_at" \notin DOMAIN st[ObjectId(id)]

GetById(p, id) ==
    /\ CanStart(p)
    /\ calls' = calls + 1
    /\ \E t \in Times :
        /\ IF get_by_id_stamps(store, id) THEN ClockReads(t) ELSE t = now /\ now' = now
        /\ Finish(p, [NewFrame("get_by_id", id) EXCEPT
                         !.res = IF IsValidId(id) THEN get_by_id(store, id, t)
                                 ELSE Raise("InvalidId")])
    /\ UNCHANGED <<store, nextId, conf>>

Count(p) ==
    /\ CanStart(p)
    /\ calls' = calls + 1
    /\ Finish(p, [NewFrame("count", <<>>) EXCEPT
                     !.res = [tag |-> "int", n |-> count(store)]])
    /\ UNCHANGED <<store, nextId, now, conf>>

GetMultiple(p, args) ==
    /\ CanStart(p)
    /\ calls' = calls + 1
    /\ \E items \in get_multiple(store, args.sort_by, args.n, args.filters) :
          Finish(p, [NewFrame("get_multiple", <<>>) EXCEPT
                        !.items = <<args>>,
                        !.res = [tag |-> "list", items |-> items]])
    /\ UNCHANGED <<store, nextId, now, conf>>

----------------------------------------------------------------------------
(* Specification: one caller, one call at a time *)

Start(p) ==
    \/ \E item \in CreateItems, defaults \in DefaultsInputs : Create(p, item, defaults)
    \/ \E items \in BulkInputs, defaults \in DefaultsInputs : CreateMany(p, items, defaults)
    \/ \E id \in IdInputs : Update(p, id)
    \/ \E id \in IdInputs : Delete(p, id)
    \/ \E id \in IdInputs : IdExists(p, id)
    \/ \E id \in IdInputs : FindAndIsSoftDeleted(p, id)
    \/ \E id \in IdInputs : GetById(p, id)
    \/ Count(p)
    \/ \E args \in ListInputs : GetMultiple(p, args)

Step(p) ==
    \/ CreateInsert(p)
    \/ CreateHook(p)
    \/ CreateManyInsert(p)
    \/ CreateManyHook(p)
    \/ \E item \in UpdateItems : UpdateIdExists(p, item)
    \/ UpdateWrite(p)
    \/ UpdateHook(p)
    \/ DeleteIdExists(p)
    \/ DeleteStore(p)
    \/ DeleteHook(p)

Next ==
    \E p \in SeqCallers : Start(p) \/ Step(p)

Spec == Init /\ [][Next]_vars

----------------------------------------------------------------------------
(* Specification: two callers, one update or delete each, on one record.   *)
(* The coroutines interleave at their awaited store calls.                 *)

\* the id both callers address: that of the record create has inserted
ConcId == str(0)

\* the collection after one create({name: "Jane", age: 25})
InitConc ==
    /\ conf \in [make_time_stamps : BOOLEAN, soft_delete : BOOLEAN]
    /\ store = insert_one([o \in {} |-> EmptyDict], 0,
                          _create(merge_defaults([name |-> "Jane", age |-> 25],
                                                 EmptyDict), 0))
    /\ nextId = 1
    /\ now = 0
    /\ pc = [p \in Callers |-> "idle"]
    /\ frame = [p \in Callers |-> NewFrame("none", <<>>)]
    /\ calls = 0

ConcUpdate(p) == pc[p] = "idle" /\ Update(p, ConcId)

ConcDelete(p) == pc[p] = "idle" /\ Delete(p, ConcId)

NextConc ==
    \E p \in Callers :
        \/ ConcUpdate(p)
        \/ ConcDelete(p)
        \/ \E item \in UpdateItems : UpdateIdExists(p, item)
        \/ UpdateWrite(p)
        \/ UpdateHook(p)
        \/ DeleteIdExists(p)
        \/ DeleteStore(p)
        \/ DeleteHook(p)

SpecConc == InitConc /\ [][NextConc]_vars

----------------------------------------------------------------------------
(* ModelGenerator (src/app/schemas/core.py): composing shapes.             *)
(* A class is the list of the field-groups it is built from, in method     *)
(* resolution order, and its fields, each with the group that defines it.  *)

\* the field-groups: a name and the fields the class body declares
FromMongo == [name |-> "FromMongo", fields |-> {"id"}]
SoftDeletion == [name |-> "SoftDeletion", fields |-> {"deleted_at", "is_deleted"}]
Timestamp == [name |-> "Timestamp", fields |-> {"created_at", "updated_at"}]

RECURSIVE model_fields(_)
\* the fields of a class with these groups in resolution order: a field
\* declared by several is taken from the first, without complaint
model_fields(mro) ==
    IF mro = <<>> THEN EmptyDict
    ELSE Merge(model_fields(Tail(mro)),
               [f \in Head(mro).fields |-> Head(mro).name])

\* class NewModel(*bases): pass
NewModel(bases) ==
    [tag |-> "shape", mro |-> bases, fields |-> model_fields(bases)]

\* pydantic.BaseModel: no fields
BaseModel == NewModel(<<>>)

\* faulty variant: the flags are ignored, every group is mixed in
__generate_read_model_all(persistent_delete, time_stamp) ==
    NewModel(<<FromMongo, SoftDeletion, Timestamp>>)

\* __generate_read_model: FromMongo, then SoftDeletion and Timestamp as asked
__generate_read_model(persistent_delete, time_stamp) ==
    NewModel(<<FromMongo>>
             \o (IF persistent_delete THEN <<SoftDeletion>> ELSE <<>>)
             \o (IF time_stamp THEN <<Timestamp>> ELSE <<>>))

\* faulty variant: an unknown type falls back to the plain shape
_generate_lenient(type, persistent_delete, time_stamp) ==
    CASE type = "read" -> __generate_read_model(persistent_delete, time_stamp)
      [] OTHER -> BaseModel

\* _generate: match self.type
_generate(type, persistent_delete, time_stamp) ==
    CASE type = "read" -> __generate_read_model(persistent_delete, time_stamp)
      [] type = "create" -> BaseModel
      [] type = "update" -> BaseModel
      [] OTHER -> Raise("ValueError")

\* make_model: ModelGenerator(type, persistent_delete, time_stamp)._generate()
make_model(type, persistent_delete, time_stamp) ==
    _generate(type, persistent_delete, time_stamp)

\* class <name>(<base>): <fields>, as fast.py declares User and UserRead:
\* the class body is the first group in resolution order
declare(name, base, fields) ==
    NewModel(<<[name |-> name, fields |-> fields]>> \o base.mro)

\* the types make_model is called with (the Literal annotation is not
\* enforced when the program runs)
TypeInputs == {"read", "create", "update", "delete", ""}

\* the fields an entity declares on top of the composed shape
EntityFields == {{"name", "age"}, {"name", "age", "created_at"}, {"name", "id"}}

MakeModel(p, type, persistent_delete, time_stamp) ==
    /\ CanStart(p)
    /\ calls' = calls + 1
    /\ LET f == [NewFrame("make_model", <<>>) EXCEPT
                    !.items = <<[type |-> type,
                                 persistent_delete |-> persistent_delete,
                                 time_stamp |-> time_stamp]>>,
                    !.res = make_model(type, persistent_delete, time_stamp)]
       IN  IF f.res.tag = "raise"
           THEN Finish(p, f)
           ELSE /\ pc' = [pc EXCEPT ![p] = "composed"]
                /\ frame' = [frame EXCEPT ![p] = f]
    /\ UNCHANGED <<store, nextId, now, conf>>

\* the entity's shape is declared on the composed one
DeclareShape(p, fields) ==
    /\ pc[p] = "composed"
    /\ Finish(p, [frame[p] EXCEPT
                     !.op = "class",
                     !.res = declare("Entity", frame[p].res, fields)])
    /\ UNCHANGED <<store, nextId, now, conf, calls>>

NextCompose ==
    \E p \in Callers :
        \/ \E type \in TypeInputs, persistent_delete \in BOOLEAN, time_stamp \in BOOLEAN :
              MakeModel(p, type, persistent_delete, time_stamp)
        \/ \E fields \in EntityFields : DeclareShape(p, fields)

SpecCompose == Init /\ [][NextCompose]_vars

----------------------------------------------------------------------------
(* Vocabulary of the properties *)

Oid(p) == ObjectId(frame[p].id)

NotFound == [tag |-> "raise", err |-> "NotFound"]

\* the record is not flagged as deleted
Active(doc) == ~("is_deleted" \in DOMAIN doc /\ doc["is_deleted"])

\* the write of p's delete / update has just completed
Deleted(p) == pc[p] = "d_hook"
Updated(p) == pc[p] = "u_hook"
Inserted(p) == pc[p] \in {"c_hook", "m_hook"}

\* p's delete has written and, if it is over, has returned true (or its hook
\* raised)
ReturnsTrue(p) ==
    pc[p] = "done" =>
        \/ frame[p].res = [tag |-> "bool", b |-> TRUE]
        \/ frame[p].res = [tag |-> "raise", err |-> "HookError"]

SameField(f, a, b) ==
    /\ (f \in DOMAIN a) <=> (f \in DOMAIN b)
    /\ f \in DOMAIN a => a[f] = b[f]

HookOf(op) ==
    CASE op \in {"create", "create_many"} -> "on_create"
      [] op = "update" -> "on_update"
      [] op = "delete" -> "on_delete"
      [] OTHER -> "none"

----------------------------------------------------------------------------
(* Claims *)

C2_HardDeleteRemoves ==
    \A p \in Callers :
        (~conf.soft_delete /\ frame[p].op = "delete" /\ IsValidId(frame[p].id)
            /\ (Deleted(p) \/ pc[p] = "done")) =>
            /\ ~found(store, Oid(p))
            /\ id_exists(store, frame[p].id) = FALSE
            /\ get_by_id(store, frame[p].id, now) = NotFound
            /\ frame[p].wrote => ReturnsTrue(p)

C2_Witness ==
    \E p \in Callers :
        /\ ~conf.soft_delete
        /\ Deleted(p)
        /\ ~Active(frame[p].seen[1])
        /\ ~found(store, Oid(p))

\* C3: update and delete of a well-formed id that matches no record return
\* false, raise nothing, leave the store unchanged and invoke no hook.
C3_MissingIdIsNoOp ==
    [][\A p \in Callers :
        (/\ pc[p] \in {"u_exists", "d_exists"}
         /\ pc'[p] # pc[p]
         /\ ~found(store, Oid(p))) =>
            /\ pc'[p] = "done"
            /\ frame'[p].res = [tag |-> "bool", b |-> FALSE]
            /\ frame'[p].hooks = <<>>
            /\ frame'[p].wrote = FALSE
            /\ store' = store]_vars

C3_Witness ==
    \E p \in Callers :
        /\ pc[p] = "done"
        /\ frame[p].op \in {"update", "delete"}
        /\ frame[p].res = [tag |-> "bool", b |-> FALSE]
        /\ frame[p].hooks = <<>>
        /\ DOMAIN store # {}
        /\ ~found(store, Oid(p))

\* C4: get_by_id and find_and_is_soft_deleted of a well-formed id raise
\* NotFound exactly when no record matches the id, and leave the store
\* unchanged.
C4_ReadsRaiseNotFound ==
    [][\A p \in Callers :
        (/\ calls' # calls
         /\ pc'[p] = "done"
         /\ frame'[p].op \in {"get_by_id", "find_and_is_soft_deleted"}
         /\ IsValidId(frame'[p].id)) =>
            /\ store' = store
            /\ (frame'[p].res = NotFound) <=> ~found(store, ObjectId(frame'[p].id))]_vars

C4_Witness ==
    \E p \in Callers :
        /\ pc[p] = "done"
        /\ frame[p].op = "get_by_id"
        /\ frame[p].res = NotFound
        /\ DOMAIN store # {}

\* C5: create(item) inserts exactly one record and returns its identity as
\* a string; get_by_id of that string then returns a read shape whose id is
\* that string and whose domain fields are the item's.
C5_CreateRoundTrip ==
    [][\A p \in Callers :
        /\ (pc[p] = "c_insert" /\ pc'[p] = "c_hook") =>
              /\ DOMAIN store \subseteq DOMAIN store'
              /\ Cardinality((DOMAIN store') \ (DOMAIN store)) = 1
              /\ \A o \in DOMAIN store : store'[o] = store[o]
        /\ (/\ pc[p] = "c_hook" /\ pc'[p] = "done"
            /\ frame'[p].res.tag = "id"
            /\ frame'[p].defaults = EmptyDict) =>
              LET r == get_by_id(store', frame'[p].res.id, now')
              IN  /\ r.tag = "shape"
                  /\ r.shape.id = frame'[p].res.id
                  /\ r.shape.name = frame'[p].items[1].name
                  /\ r.shape.age = frame'[p].items[1].age]_vars

C5_Witness ==
    \E p \in Callers :
        /\ pc[p] = "done"
        /\ frame[p].op = "create"
        /\ frame[p].res.tag = "id"
        /\ frame[p].defaults = EmptyDict
        /\ get_by_id(store, frame[p].res.id, now).tag = "shape"
        /\ count(store) = 2

\* C6 (as claimed): in create and create_many, every field present in the
\* item holds the item's value in the inserted record, never the value given
\* in extra_defaults.
C6_DefaultsDoNotOverride ==
    \A p \in Callers :
        Inserted(p) =>
            \A i \in 1..Len(frame[p].items) :
                \A f \in DOMAIN frame[p].items[i] :
                    store[frame[p].inserted[i]][f] = frame[p].items[i][f]

\* C7 (as claimed): with timestamping on, created_at = updated_at right
\* after an insertion, and an update leaves updated_at strictly greater than
\* it was.
C7_UpdatedAtStrictlyIncreases ==
    \A p \in Callers :
        conf.make_time_stamps =>
            /\ Inserted(p) =>
                  \A i \in 1..Len(frame[p].inserted) :
                      LET doc == store[frame[p].inserted[i]]
                      IN  /\ {"created_at", "updated_at"} \subseteq DOMAIN doc
                          /\ doc["created_at"] = doc["updated_at"]
            /\ (Updated(p) /\ found(store, Oid(p))) =>
                  /\ "updated_at" \in DOMAIN frame[p].seen[1]
                  /\ store[Oid(p)]["updated_at"] > frame[p].seen[1]["updated_at"]

\* C7 (amended): with timestamping on, created_at = updated_at right after
\* an insertion, and an update leaves updated_at not less than it was (equal
\* when the clock has not advanced since the previous stamp).
C7_UpdatedAtNeverDecreases ==
    \A p \in Callers :
        conf.make_time_stamps =>
            /\ Inserted(p) =>
                  \A i \in 1..Len(frame[p].inserted) :
                      LET doc == store[frame[p].inserted[i]]
                      IN  /\ {"created_at", "updated_at"} \subseteq DOMAIN doc
                          /\ doc["created_at"] = doc["updated_at"]
            /\ (Updated(p) /\ found(store, Oid(p))) =>
                  /\ "updated_at" \in DOMAIN frame[p].seen[1]
                  /\ store[Oid(p)]["updated_at"] >= frame[p].seen[1]["updated_at"]
                  /\ store[Oid(p)]["updated_at"] = now

C7_Witness ==
    \E p \in Callers :
        /\ conf.make_time_stamps
        /\ Updated(p)
        /\ found(store, Oid(p))
        /\ store[Oid(p)]["updated_at"] > frame[p].seen[1]["updated_at"]

\* C8 (as claimed): an update or delete leaves a record that stays in the
\* store with the _id and the created_at it was inserted with, whatever the
\* update shape carries.
C8_IdentityAndCreatedAtFixed ==
    \A p \in Callers :
        (/\ Updated(p) \/ Deleted(p)
         /\ found(store, Oid(p))
         /\ "created_at" \in DOMAIN frame[p].seen[1]) =>
            /\ SameField("_id", store[Oid(p)], frame[p].seen[1])
            /\ SameField("created_at", store[Oid(p)], frame[p].seen[1])

\* the update shape instance of p's update has exactly field X set, to a
\* value of X's type
OnlySet(p, X) ==
    /\ DOMAIN frame[p].items[1].val = {X}
    /\ ~IsNone(X, frame[p].items[1].val[X])

Other(X) == IF X = "name" THEN "age" ELSE "name"

\* the value supplied for X is not the shape's default for X
Supplied(item, X) == ~(X \in DOMAIN item.dflt /\ item.dflt[X] = item.val[X])

\* C9 (as claimed): after an update in which only the domain field X is set,
\* to any value, get_by_id shows X with that value and the other domain
\* field with the value it had.
C9_SparsePatchAnyValue ==
    \A p \in Callers : \A X \in {"name", "age"} :
        (Updated(p) /\ found(store, Oid(p)) /\ OnlySet(p, X)) =>
            LET r == get_by_id(store, frame[p].id, now)
            IN  /\ r.tag = "shape"
                /\ r.shape[X] = frame[p].items[1].val[X]
                /\ r.shape[Other(X)] = frame[p].seen[1][Other(X)]

\* C9 (amended): after an update in which only the domain field X is set,
\* get_by_id shows X with the supplied value when that value is not the
\* update shape's default for X, and with its previous value when it is;
\* the other domain field has the value it had.
C9_SparsePatch ==
    \A p \in Callers : \A X \in {"name", "age"} :
        (Updated(p) /\ found(store, Oid(p)) /\ OnlySet(p, X)) =>
            LET r == get_by_id(store, frame[p].id, now)
            IN  /\ r.tag = "shape"
                /\ r.shape[X] = IF Supplied(frame[p].items[1], X)
                                THEN frame[p].items[1].val[X]
                                ELSE frame[p].seen[1][X]
                /\ r.shape[Other(X)] = frame[p].seen[1][Other(X)]

C9_Witness ==
    \E p \in Callers :
        /\ Updated(p)
        /\ found(store, Oid(p))
        /\ OnlySet(p, "age")
        /\ store[Oid(p)]["age"] = frame[p].items[1].val["age"]
        /\ frame[p].seen[1]["age"] # frame[p].items[1].val["age"]
        /\ store[Oid(p)]["name"] = frame[p].seen[1]["name"]

\* C10: a call of create, create_many, update or delete that has written to
\* the store invokes the matching hook exactly once, after its write: no
\* hook runs before the write, none runs twice, and no call that wrote
\* finishes without it.
C10_HookOnceAfterWrite ==
    \A p \in Callers :
        /\ Len(frame[p].hooks) <= 1
        /\ frame[p].hooks # <<>> =>
              /\ frame[p].wrote
              /\ frame[p].hooks[1] = HookOf(frame[p].op)
        /\ (pc[p] = "done" /\ frame[p].wrote) => Len(frame[p].hooks) = 1
        /\ (Inserted(p) \/ Updated(p) \/ Deleted(p)) =>
              frame[p].wrote /\ frame[p].hooks = <<>>

C10_Witness ==
    \E p \in Callers :
        /\ pc[p] = "done"
        /\ frame[p].op = "create_many"
        /\ frame[p].wrote
        /\ frame[p].hooks = <<"on_create">>
        /\ count(store) = 2

HookError == [tag |-> "raise", err |-> "HookError"]

\* the hook of p's call runs in this step
HookRuns(p) ==
    pc[p] \in {"c_hook", "m_hook", "u_hook", "d_hook"} /\ pc'[p] = "done"

\* C11: when the lifecycle hook of a create, create_many, update or delete
\* raises, the call ends with that error and the store keeps the write the
\* call made: the inserted records, the updated fields, the removal.
C11_HookErrorKeepsWrite ==
    [][\A p \in Callers :
        (HookRuns(p) /\ frame'[p].raised) =>
            /\ frame'[p].res = HookError
            /\ store' = store
            /\ pc[p] \in {"c_hook", "m_hook"} =>
                  \A i \in 1..Len(frame[p].inserted) :
                      /\ found(store', frame[p].inserted[i])
                      /\ \A f \in DOMAIN frame[p].dicts[i] :
                            /\ f \in DOMAIN store'[frame[p].inserted[i]]
                            /\ store'[frame[p].inserted[i]][f] = frame[p].dicts[i][f]
            /\ pc[p] = "u_hook" =>
                  /\ found(store', Oid(p))
                  /\ \A f \in DOMAIN frame[p].dicts[1] :
                        /\ f \in DOMAIN store'[Oid(p)]
                        /\ store'[Oid(p)][f] = frame[p].dicts[1][f]
            /\ pc[p] = "d_hook" =>
                  \/ ~found(store', Oid(p))
                  \/ ~Active(store'[Oid(p)])]_vars

C11_Witness ==
    \E p \in Callers :
        /\ pc[p] = "done"
        /\ frame[p].op = "update"
        /\ frame[p].raised
        /\ frame[p].res = HookError
        /\ frame[p].wrote
        /\ found(store, Oid(p))
        /\ store[Oid(p)]["age"] = 30
        /\ store[Oid(p)]["name"] = "Jane"


\* the ids the store has handed out: each names a record or a removed one
Issued == 0..(nextId - 1)

\* p's delete issues its store call in this step
DeleteWrites(p) == pc[p] = "d_delete" /\ pc'[p] = "d_hook"

\* C12 (as claimed): with soft-delete enabled a record only moves forward
\* through ACTIVE -> SOFT_DELETED -> REMOVED: no step takes is_deleted from
\* true back to false, no delete takes an ACTIVE record straight to REMOVED,
\* and no update or delete makes a removed id exist again.
C12_SoftDeleteOnlyForward ==
    [][conf.soft_delete =>
        \A o \in Issued :
            /\ (found(store, o) /\ ~Active(store[o]) /\ found(store', o)) =>
                  ~Active(store'[o])
            /\ (/\ found(store, o) /\ Active(store[o])
                /\ \E p \in Callers : DeleteWrites(p) /\ Oid(p) = o) =>
                  found(store', o)
            /\ (/\ ~found(store, o)
                /\ \E p \in Callers :
                      /\ pc'[p] # pc[p]
                      /\ frame'[p].op \in {"update", "delete"}) =>
                  ~found(store', o)]_vars


\* C13 (as claimed): with soft-delete enabled, two deletes of the same
\* ACTIVE record that both read it before either writes both return true
\* and leave the record present with is_deleted = true, its other fields
\* (but updated_at) as they were.
C13_ConcurrentSoftDeletes ==
    /\ \A p \in Callers :
          (conf.soft_delete /\ frame[p].op = "delete" /\ frame[p].wrote) =>
              ReturnsTrue(p)
    /\ \A p, q \in Callers :
          (/\ p # q
           /\ conf.soft_delete
           /\ Deleted(p) /\ Deleted(q)
           /\ frame[p].id = frame[q].id
           /\ Active(frame[p].seen[1]) /\ Active(frame[q].seen[1])) =>
              /\ found(store, Oid(p))
              /\ "is_deleted" \in DOMAIN store[Oid(p)]
              /\ store[Oid(p)]["is_deleted"] = TRUE
              /\ \A f \in DOMAIN frame[p].seen[1] :
                    f # "updated_at" => SameField(f, store[Oid(p)], frame[p].seen[1])


\* C14: when two updates of the same record have both written, a field only
\* one of them wrote holds that call's value, a field both wrote holds the
\* value of one of the two, and a field neither wrote (other than updated_at)
\* is as it was.
C14_ConcurrentUpdatesMerge ==
    \A p, q \in Callers :
        (p # q /\ Updated(p) /\ Updated(q) /\ frame[p].id = frame[q].id) =>
            /\ found(store, Oid(p))
            /\ LET dp == frame[p].dicts[1]
                   dq == frame[q].dicts[1]
                   rec == store[Oid(p)]
                   was == frame[p].seen[1]
               IN  \A f \in (DOMAIN rec) \cup (DOMAIN was)
                                \cup (DOMAIN dp) \cup (DOMAIN dq) :
                       /\ (f \in DOMAIN dp /\ f \notin DOMAIN dq) =>
                             f \in DOMAIN rec /\ rec[f] = dp[f]
                       /\ (f \in DOMAIN dp /\ f \in DOMAIN dq) =>
                             f \in DOMAIN rec /\ rec[f] \in {dp[f], dq[f]}
                       /\ (f \notin DOMAIN dp /\ f \notin DOMAIN dq
                              /\ f # "updated_at") =>
                             SameField(f, rec, was)

C14_Witness ==
    \E p, q \in Callers :
        /\ p # q
        /\ Updated(p) /\ Updated(q)
        /\ frame[p].seen = frame[q].seen
        /\ "name" \in DOMAIN frame[p].dicts[1]
        /\ "name" \notin DOMAIN frame[q].dicts[1]
        /\ "age" \in DOMAIN frame[q].dicts[1]
        /\ "age" \notin DOMAIN frame[p].dicts[1]
        /\ store[Oid(p)]["name"] = frame[p].dicts[1]["name"]
        /\ store[Oid(p)]["name"] # frame[p].seen[1]["name"]
        /\ store[Oid(p)]["age"] = frame[q].dicts[1]["age"]
        /\ store[Oid(p)]["age"] # frame[p].seen[1]["age"]


\* the fields of the identity, timestamp and soft-deletion groups
IdentityFields == {"id"}
TimestampFields == {"created_at", "updated_at"}
SoftDeletionFields == {"deleted_at", "is_deleted"}

\* p has called make_model and holds what it returned or raised
Composed(p) == frame[p].op = "make_model" /\ pc[p] \in {"composed", "done"}

InvalidConfiguration == [tag |-> "raise", err |-> "ValueError"]

\* C15: make_model("read", ...) returns a shape with the identity field,
\* with created_at and updated_at exactly when time_stamp is set and with
\* deleted_at and is_deleted exactly when persistent_delete is set;
\* make_model("create" / "update", ...) returns a shape with none of these
\* fields, whatever the flags.
C15_ShapeFollowsRoleAndFlags ==
    \A p \in Callers :
        Composed(p) =>
            LET a == frame[p].items[1]
                r == frame[p].res
            IN  /\ a.type = "read" =>
                      /\ r.tag = "shape"
                      /\ IdentityFields \subseteq DOMAIN r.fields
                      /\ IF a.time_stamp
                         THEN TimestampFields \subseteq DOMAIN r.fields
                         ELSE TimestampFields \cap DOMAIN r.fields = {}
                      /\ IF a.persistent_delete
                         THEN SoftDeletionFields \subseteq DOMAIN r.fields
                         ELSE SoftDeletionFields \cap DOMAIN r.fields = {}
                /\ a.type \in {"create", "update"} =>
                      /\ r.tag = "shape"
                      /\ DOMAIN r.fields \cap (IdentityFields \cup TimestampFields
                                                 \cup SoftDeletionFields) = {}

C15_Witness ==
    \E p, q \in Callers :
        /\ Composed(p) /\ Composed(q)
        /\ frame[p].items[1] = [type |-> "read", persistent_delete |-> TRUE,
                                time_stamp |-> FALSE]
        /\ DOMAIN frame[p].res.fields = {"id", "deleted_at", "is_deleted"}
        /\ frame[q].items[1] = [type |-> "update", persistent_delete |-> TRUE,
                                time_stamp |-> TRUE]
        /\ DOMAIN frame[q].res.fields = {}

\* C16: make_model with a type other than "read", "create" and "update"
\* raises the configuration error and returns no shape, whatever the flags.
C16_UnknownRoleRaises ==
    \A p \in Callers :
        (Composed(p) /\ frame[p].items[1].type \notin {"read", "create", "update"}) =>
            /\ pc[p] = "done"
            /\ frame[p].res = InvalidConfiguration

C16_Witness ==
    \E p \in Callers :
        /\ Composed(p)
        /\ frame[p].items[1] = [type |-> "delete", persistent_delete |-> TRUE,
                                time_stamp |-> TRUE]
        /\ frame[p].res = InvalidConfiguration

C18_SoftDeleteFrame ==
    [][\A p \in Callers :
        (/\ conf.soft_delete /\ conf.make_time_stamps
         /\ DeleteWrites(p)
         /\ found(store, Oid(p))
         /\ Active(store[Oid(p)])) =>
            store' = [store EXCEPT ![Oid(p)] =
                         Merge(@, [is_deleted |-> TRUE, updated_at |-> now'])]]_vars


\* C19 (as claimed): an update or delete that returns true has made its
\* store write (a call separate from, and after, its existence check) at a
\* moment when a record with its id was present.
C19_TrueMeansRecordPresent ==
    \A p \in Callers :
        (/\ frame[p].op \in {"update", "delete"}
         /\ pc[p] = "done"
         /\ frame[p].res = [tag |-> "bool", b |-> TRUE]) =>
            /\ frame[p].wrote
            /\ frame[p].matched


ReadOps == {"id_exists", "find_and_is_soft_deleted", "count", "get_multiple",
            "get_by_id"}

\* C20: a call of id_exists, find_and_is_soft_deleted, count, get_multiple
\* or get_by_id, whether it returns or raises, leaves the store unchanged
\* and invokes no hook; and no step of any operation changes the handler's
\* configuration.
C20_ReadsChangeNothing ==
    [][/\ conf' = conf
       /\ \A p \in Callers :
             (/\ calls' # calls
              /\ pc'[p] = "done"
              /\ frame'[p].op \in ReadOps) =>
                 /\ store' = store
                 /\ nextId' = nextId
                 /\ frame'[p].hooks = <<>>
                 /\ ~frame'[p].wrote]_vars

C20_Witness ==
    \E p \in Callers :
        /\ pc[p] = "done"
        /\ frame[p].op = "get_multiple"
        /\ frame[p].items[1].sort_by = "age"
        /\ Len(frame[p].res.items) = 1
        /\ frame[p].res.items[1]["name"] = "Bob"
        /\ count(store) = 2
        /\ frame[p].hooks = <<>>


====
